---- MODULE Spec2Model ----
(***************************************************************************)
(* Model of the snake game simulation of vxern/snake_game.                 *)
(*                                                                         *)
(* The repository holds the simulation twice: MainState in src/main.rs     *)
(* (the binary that is built) and GameState in src/game.rs (the copy       *)
(* split into modules).  The two differ in one line, the index used to     *)
(* mark the tile the head enters.  The variable impl selects the copy.     *)
(***************************************************************************)
EXTENDS Integers, Sequences, FiniteSets, TLC

VARIABLES
    impl,                 \* "main" (src/main.rs) or "game" (src/game.rs)
    head_position,        \* Vector
    tail_positions,       \* VecDeque<Vector>, front = index 1
    dimensions,           \* Vector
    tiles,                \* tiles[row][col] = is_occupied of that Tile
    fruit_position,       \* Vector
    movement_direction,   \* Direction
    queued_direction,     \* Option<Direction>
    state,                \* State / GameState
    ms_since_last_update, \* usize
    panicked,             \* TRUE once an index out of range has aborted the process
    last_call,            \* the handler that ran last, with its argument
    twin                  \* <<the other copy run on the same inputs>>, or <<>>

vars == <<impl, head_position, tail_positions, dimensions, tiles,
          fruit_position, movement_direction, queued_direction, state,
          ms_since_last_update, panicked, last_call, twin>>

----------------------------------------------------------------------------
(* Bounds and constants *)

MILLISECONDS_PER_FRAME == 300

\* frame deltas are multiples of half a frame time, at most MaxDeltaUnits of
\* them
MaxDeltaUnits == 3
\* cap on the accumulator after adding a frame delta
MaxMs == 600

\* grids the simulation is constructed with: width x, height y, at least two
\* tiles (a head and a fruit) and at most MaxTiles
MaxWidth == 3
MaxHeight == 3
MaxTiles == 6

Grids ==
    { dims \in [x : 1..MaxWidth, y : 1..MaxHeight] :
        dims.x * dims.y >= 2 /\ dims.x * dims.y <= MaxTiles }

Impls == {"main", "game"}

DeltaUnit == MILLISECONDS_PER_FRAME \div 2

Deltas == { k * DeltaUnit : k \in 0..MaxDeltaUnits }

----------------------------------------------------------------------------
(* Types *)

Vector(x, y) == [x |-> x, y |-> y]

Direction == {"Up", "Down", "Right", "Left"}

None == "None"

\* key codes the window delivers; "Other" stands for every non-arrow key
KeyCode == {"Up", "Down", "Left", "Right", "Other"}

\* position field of the Tile stored at tiles[row][col]
TilePosition(row, col) == Vector(col, row)

\* tiles[row][col] exists: row < tiles.len() and col < tiles[row].len()
InRange(dims, row, col) == row < dims.y /\ col < dims.x

Positions(dims) == { Vector(x, y) : x \in 0..(dims.x - 1), y \in 0..(dims.y - 1) }

\* VecDeque::contains
Contains(seq, p) == \E i \in 1..Len(seq) : seq[i] = p

\* the fields of the simulation as one value
Self ==
    [ impl |-> impl,
      head_position |-> head_position,
      tail_positions |-> tail_positions,
      dimensions |-> dimensions,
      tiles |-> tiles,
      fruit_position |-> fruit_position,
      movement_direction |-> movement_direction,
      queued_direction |-> queued_direction,
      state |-> state,
      ms_since_last_update |-> ms_since_last_update,
      panicked |-> panicked ]

----------------------------------------------------------------------------
(* new *)

\* variant: the accumulator starts empty
new_cold(i, dims, position) ==
    [ impl |-> i,
      head_position |-> Vector(dims.x \div 2, dims.y \div 2),
      tail_positions |-> <<>>,
      dimensions |-> dims,
      tiles |-> [row \in 0..(dims.y - 1) |->
                   [col \in 0..(dims.x - 1) |->
                       row = position.x /\ col = position.y]],
      fruit_position |-> position,
      movement_direction |-> "Right",
      queued_direction |-> None,
      state |-> "Running",
      ms_since_last_update |-> 0,
      panicked |-> FALSE ]

\* the constructor, for the fruit position the random draws end on; the fruit
\* is marked at tiles[position.x][position.y]
new(i, dims, position) ==
    [ impl |-> i,
      head_position |-> Vector(dims.x \div 2, dims.y \div 2),
      tail_positions |-> <<>>,
      dimensions |-> dims,
      tiles |-> [row \in 0..(dims.y - 1) |->
                   [col \in 0..(dims.x - 1) |->
                       row = position.x /\ col = position.y]],
      fruit_position |-> position,
      movement_direction |-> "Right",
      queued_direction |-> None,
      state |-> "Running",
      ms_since_last_update |-> MILLISECONDS_PER_FRAME,
      panicked |-> FALSE ]

\* the constructor returns: the draw is not the head and its tile index exists
newReturns(dims, position) ==
    /\ position \in Positions(dims)
    /\ position # Vector(dims.x \div 2, dims.y \div 2)
    /\ InRange(dims, position.x, position.y)

----------------------------------------------------------------------------
(* place_fruit *)

\* the tiles in iteration order (row by row), as their positions
AllTiles(dims) ==
    [k \in 1..(dims.x * dims.y) |->
        TilePosition((k - 1) \div dims.x, (k - 1) % dims.x)]

unoccupied_tiles(self) ==
    SelectSeq(AllTiles(self.dimensions), LAMBDA p : ~self.tiles[p.y][p.x])

\* result: the simulation after the call, the returned Option (<<>> is None,
\* <<p>> is Some(p)), and whether random_index is a value gen_range can
\* return (0 when nothing is drawn)
place_fruit(self, random_index) ==
    LET unoccupied == unoccupied_tiles(self) IN
    IF unoccupied = <<>>
    THEN [self |-> self, position |-> <<>>, drawn |-> random_index = 0]
    ELSE IF random_index >= Len(unoccupied)
    THEN [self |-> self, position |-> <<>>, drawn |-> FALSE]
    ELSE LET tile == unoccupied[random_index + 1] IN
         [self |-> [self EXCEPT !.fruit_position = tile,
                                !.tiles[tile.y][tile.x] = TRUE],
          position |-> <<tile>>,
          drawn |-> TRUE]

----------------------------------------------------------------------------
(* key_down_event *)

Opposite(d) ==
    CASE d = "Up" -> "Down"
      [] d = "Down" -> "Up"
      [] d = "Left" -> "Right"
      [] d = "Right" -> "Left"

\* variant: the reversal test is left out
key_down_event_unguarded(self, keycode) ==
    IF keycode \notin Direction THEN self
    ELSE [self EXCEPT !.queued_direction = keycode]

key_down_event(self, keycode) ==
    IF keycode \notin Direction THEN self
    ELSE IF self.movement_direction = Opposite(keycode) THEN self
    ELSE [self EXCEPT !.queued_direction = keycode]

----------------------------------------------------------------------------
(* update *)

\* the accumulator after adding the frame delta
accumulate(self, delta) ==
    [self EXCEPT !.ms_since_last_update = @ + delta]

\* whether the accumulated time lets a step run
step_due(self) == self.ms_since_last_update >= MILLISECONDS_PER_FRAME

\* variant: the accumulator is reset instead of reduced
consume_frame_reset(self) ==
    [self EXCEPT !.ms_since_last_update = 0]

consume_frame(self) ==
    [self EXCEPT !.ms_since_last_update = @ - MILLISECONDS_PER_FRAME]

\* variant: the queue is not cleared
apply_queued_direction_kept(self) ==
    IF self.queued_direction # None
    THEN [self EXCEPT !.movement_direction = self.queued_direction]
    ELSE self

apply_queued_direction(self) ==
    IF self.queued_direction # None
    THEN [self EXCEPT !.movement_direction = self.queued_direction,
                      !.queued_direction = None]
    ELSE self

\* variant: the far walls are tested one cell too late
at_boundary_late(self) ==
    CASE self.movement_direction = "Up" -> self.head_position.y = 0
      [] self.movement_direction = "Down" ->
            self.head_position.y = self.dimensions.y
      [] self.movement_direction = "Right" ->
            self.head_position.x = self.dimensions.x
      [] self.movement_direction = "Left" -> self.head_position.x = 0

\* the boundary test of the match on movement_direction
at_boundary(self) ==
    CASE self.movement_direction = "Up" -> self.head_position.y = 0
      [] self.movement_direction = "Down" ->
            self.head_position.y + 1 = self.dimensions.y
      [] self.movement_direction = "Right" ->
            self.head_position.x + 1 = self.dimensions.x
      [] self.movement_direction = "Left" -> self.head_position.x = 0

move_head(self) ==
    CASE self.movement_direction = "Up" ->
            [self EXCEPT !.head_position.y = @ - 1]
      [] self.movement_direction = "Down" ->
            [self EXCEPT !.head_position.y = @ + 1]
      [] self.movement_direction = "Right" ->
            [self EXCEPT !.head_position.x = @ + 1]
      [] self.movement_direction = "Left" ->
            [self EXCEPT !.head_position.x = @ - 1]

\* <<row, col>> used to mark the tile the head entered
head_tile_index(self) ==
    IF self.impl = "game"
    THEN <<self.head_position.y, self.head_position.x>>
    ELSE <<self.head_position.x, self.head_position.y>>

\* <<row, col>> used to unmark the tile of a popped tail segment
tail_tile_index(tail_position) == <<tail_position.x, tail_position.y>>

\* variant: the tail is not searched
check_self_collision_skipped(self) == self

check_self_collision(self) ==
    IF Contains(self.tail_positions, self.head_position)
    THEN [self EXCEPT !.state = "Lost"]
    ELSE self

push_previous(self, previous_position) ==
    [self EXCEPT !.tail_positions = <<previous_position>> \o @]

\* the fruit branch: place a new fruit or win
eat_fruit(self, random_index) ==
    LET placed == place_fruit(self, random_index) IN
    IF placed.position = <<>>
    THEN [self |-> [placed.self EXCEPT !.state = "Won"], drawn |-> placed.drawn]
    ELSE [self |-> [placed.self EXCEPT !.fruit_position = placed.position[1]],
          drawn |-> placed.drawn]

\* variant: the trailing segment stays
pop_tail_kept(self) == self

\* pop_back and unmark; the index is evaluated after the pop
pop_tail(self) ==
    IF self.tail_positions = <<>> THEN self
    ELSE LET n == Len(self.tail_positions)
             tail_position == self.tail_positions[n]
             popped == [self EXCEPT !.tail_positions = SubSeq(@, 1, n - 1)]
             idx == tail_tile_index(tail_position)
         IN IF ~InRange(self.dimensions, idx[1], idx[2])
            THEN [popped EXCEPT !.panicked = TRUE]
            ELSE [popped EXCEPT !.tiles[idx[1]][idx[2]] = FALSE]

\* the part of update after the boundary test
enter_tile(self, previous_position, random_index) ==
    LET moved == move_head(self)
        idx == head_tile_index(moved)
    IN IF ~InRange(moved.dimensions, idx[1], idx[2])
       THEN [self |-> [moved EXCEPT !.panicked = TRUE], drawn |-> random_index = 0]
       ELSE LET marked == [moved EXCEPT !.tiles[idx[1]][idx[2]] = TRUE]
                pushed == push_previous(check_self_collision(marked),
                                        previous_position)
            IN IF pushed.head_position = pushed.fruit_position
               THEN eat_fruit(pushed, random_index)
               ELSE [self |-> pop_tail(pushed), drawn |-> random_index = 0]

\* one discrete step, run once the frame time has been consumed
step(self, random_index) ==
    LET previous_position == self.head_position
        turned == apply_queued_direction(self)
    IN IF at_boundary(turned)
       THEN [self |-> [turned EXCEPT !.state = "Lost"], drawn |-> random_index = 0]
       ELSE enter_tile(turned, previous_position, random_index)

update(self, delta, random_index) ==
    IF self.state = "Lost"
    THEN [self |-> self, drawn |-> random_index = 0]
    ELSE LET accumulated == accumulate(self, delta) IN
         IF ~step_due(accumulated)
         THEN [self |-> accumulated, drawn |-> random_index = 0]
         ELSE step(consume_frame(accumulated), random_index)

----------------------------------------------------------------------------
(* The state machine *)

Assign(self) ==
    /\ impl' = self.impl
    /\ head_position' = self.head_position
    /\ tail_positions' = self.tail_positions
    /\ dimensions' = self.dimensions
    /\ tiles' = self.tiles
    /\ fruit_position' = self.fruit_position
    /\ movement_direction' = self.movement_direction
    /\ queued_direction' = self.queued_direction
    /\ state' = self.state
    /\ ms_since_last_update' = self.ms_since_last_update
    /\ panicked' = self.panicked

Init ==
    \E i \in Impls, dims \in Grids : \E position \in Positions(dims) :
        /\ newReturns(dims, position)
        /\ LET self == new(i, dims, position) IN
           /\ impl = self.impl
           /\ head_position = self.head_position
           /\ tail_positions = self.tail_positions
           /\ dimensions = self.dimensions
           /\ tiles = self.tiles
           /\ fruit_position = self.fruit_position
           /\ movement_direction = self.movement_direction
           /\ queued_direction = self.queued_direction
           /\ state = self.state
           /\ ms_since_last_update = self.ms_since_last_update
           /\ panicked = self.panicked
        /\ last_call = [op |-> "new", keycode |-> None, delta |-> 0]
        /\ twin = <<>>

KeyDown(keycode) ==
    /\ ~panicked
    /\ Assign(key_down_event(Self, keycode))
    /\ last_call' = [op |-> "key_down_event", keycode |-> keycode, delta |-> 0]
    /\ twin' = twin

Update(delta) ==
    /\ ~panicked
    /\ ms_since_last_update + delta <= MaxMs
    /\ \E random_index \in 0..(dimensions.x * dimensions.y - 1) :
         LET result == update(Self, delta, random_index) IN
         /\ result.drawn
         /\ Assign(result.self)
    /\ last_call' = [op |-> "update", keycode |-> None, delta |-> delta]
    /\ twin' = twin

Next ==
    \/ \E keycode \in KeyCode : KeyDown(keycode)
    \/ \E delta \in Deltas : Update(delta)

Spec == Init /\ [][Next]_vars

----------------------------------------------------------------------------
(* Vocabulary of the properties *)

\* the process is alive and the game is in progress
Running == state = "Running" /\ ~panicked

TailCells == { tail_positions[i] : i \in 1..Len(tail_positions) }

Snake == {head_position} \cup TailCells

\* is_occupied of the tile whose position is p
occupied(p) == tiles[p.y][p.x]

\* the step from the current state to the next one is a call of the handler
KeyDownCall == last_call'.op = "key_down_event"
UpdateCall == last_call'.op = "update"

Distance(p, q) ==
    (IF p.x >= q.x THEN p.x - q.x ELSE q.x - p.x)
  + (IF p.y >= q.y THEN p.y - q.y ELSE q.y - p.y)

----------------------------------------------------------------------------
(* C1 *)

\* C1: in every Running state the fruit position differs from the head
\* position and from every position of the tail queue.
C1_FruitNotOnSnake == Running => fruit_position \notin Snake

----------------------------------------------------------------------------
(* C2 *)

\* C2: in every Running state the head lies inside the grid and the head and
\* the tail positions are pairwise distinct.
C2_SnakeWellFormed ==
    Running =>
        /\ head_position.x >= 0 /\ head_position.x < dimensions.x
        /\ head_position.y >= 0 /\ head_position.y < dimensions.y
        /\ head_position \notin TailCells
        /\ \A i, j \in 1..Len(tail_positions) :
               i # j => tail_positions[i] # tail_positions[j]

\* a snake of three cells that has just turned, still Running
C2_Witness ==
    /\ Running
    /\ last_call.op = "update"
    /\ Len(tail_positions) >= 2
    /\ head_position.x # tail_positions[2].x
    /\ head_position.y # tail_positions[2].y

----------------------------------------------------------------------------
(* C3 *)

\* C3: once the status is Won or Lost no later call changes it.
C3_TerminalAbsorbing ==
    [][(state \in {"Won", "Lost"}) => state' = state]_vars

----------------------------------------------------------------------------
(* C4 *)

\* C4: once the status is Won or Lost, every later update leaves the head
\* position, the tail queue and the fruit position unchanged.
C4_TerminalFreezesPositions ==
    [][(state \in {"Won", "Lost"} /\ UpdateCall) =>
          UNCHANGED <<head_position, tail_positions, fruit_position>>]_vars

----------------------------------------------------------------------------
(* C5 *)

\* C5: in every Running state a tile is occupied exactly when its position is
\* the head, a tail segment or the fruit.
C5_OccupancyExact ==
    Running =>
        \A p \in Positions(dimensions) :
            occupied(p) <=> (p \in Snake \/ p = fruit_position)

----------------------------------------------------------------------------
(* C6 *)

\* C6: a tick sets the status to Won only when every cell of the grid is the
\* head or a tail segment; a tick on which the head enters the fruit's cell
\* while some cell is free of the snake places a new fruit and does not win.
C6_WonOnlyWhenFull ==
    [][/\ (state # "Won" /\ state' = "Won") => Snake' = Positions(dimensions)
       /\ ( /\ state = "Running" /\ UpdateCall /\ ~panicked'
            /\ head_position' # head_position
            /\ head_position' = fruit_position
            /\ Snake' # Positions(dimensions) )
          => state' # "Won"]_vars

----------------------------------------------------------------------------
(* C7 *)

\* C7: a direction key that is the exact opposite of the active movement
\* direction leaves the active and the queued direction unchanged, whatever
\* is queued.
C7_OppositeIgnored ==
    [][( /\ KeyDownCall
         /\ last_call'.keycode \in Direction
         /\ last_call'.keycode = Opposite(movement_direction) )
       => UNCHANGED <<movement_direction, queued_direction>>]_vars

\* the opposite key arrived while another direction was queued
C7_Witness ==
    /\ last_call.op = "key_down_event"
    /\ last_call.keycode \in Direction
    /\ last_call.keycode = Opposite(movement_direction)
    /\ queued_direction \in Direction
    /\ state = "Running"

----------------------------------------------------------------------------
(* C8 *)

\* C8: with status Won or Lost a direction input leaves the queued direction
\* and every other field unchanged.
C8_NoInputWhenOver ==
    [][(state \in {"Won", "Lost"} /\ KeyDownCall) =>
          UNCHANGED <<head_position, tail_positions, dimensions, tiles,
                      fruit_position, movement_direction, queued_direction,
                      state, ms_since_last_update>>]_vars

----------------------------------------------------------------------------
(* C9 *)

\* C9: while Running, an update that leaves the accumulator below the frame
\* time changes nothing but the accumulator; an update that brings it to the
\* frame time or above runs exactly one step (the head moves one cell, or the
\* game is lost at the boundary with the head in place) and takes exactly one
\* frame time off the accumulator, however much time has accumulated.
C9_FixedStep ==
    [][(Running /\ UpdateCall) =>
          IF ms_since_last_update + last_call'.delta < MILLISECONDS_PER_FRAME
          THEN /\ ms_since_last_update' =
                      ms_since_last_update + last_call'.delta
               /\ UNCHANGED <<head_position, tail_positions, dimensions,
                              tiles, fruit_position, movement_direction,
                              queued_direction, state, panicked>>
          ELSE /\ ms_since_last_update' =
                      ms_since_last_update + last_call'.delta
                          - MILLISECONDS_PER_FRAME
               /\ \/ Distance(head_position, head_position') = 1
                  \/ state' = "Lost" /\ head_position' = head_position
               /\ Len(tail_positions') <= Len(tail_positions) + 1]_vars

\* a step has run and a whole frame time is still in the accumulator
C9_Witness ==
    /\ Running
    /\ last_call.op = "update"
    /\ last_call.delta = 3 * DeltaUnit
    /\ ms_since_last_update = MILLISECONDS_PER_FRAME
    /\ tail_positions # <<>>

----------------------------------------------------------------------------
(* C10 *)

\* C10: the tail length never decreases; it grows by exactly one on a tick on
\* which the head enters the fruit's cell and stays the same on every other
\* call.
C10_TailLength ==
    [][~panicked' =>
          IF head_position' # head_position /\ head_position' = fruit_position
          THEN Len(tail_positions') = Len(tail_positions) + 1
          ELSE Len(tail_positions') = Len(tail_positions)]_vars

\* the snake has grown twice
C10_Witness ==
    /\ last_call.op = "update"
    /\ ~panicked
    /\ Len(tail_positions) >= 2
    /\ head_position # fruit_position

----------------------------------------------------------------------------
(* Vocabulary of the tick properties *)

\* the update that produces the next state runs a step: the game is not Lost
\* and the accumulated time reaches the frame time
StepRuns ==
    /\ UpdateCall
    /\ ~panicked
    /\ state # "Lost"
    /\ ms_since_last_update + last_call'.delta >= MILLISECONDS_PER_FRAME

\* the direction that step moves in
ActiveDirection ==
    IF queued_direction # None THEN queued_direction ELSE movement_direction

\* one cell from the head in the active direction lies outside the grid
LeavesGrid ==
    \/ ActiveDirection = "Up" /\ head_position.y - 1 < 0
    \/ ActiveDirection = "Down" /\ head_position.y + 1 >= dimensions.y
    \/ ActiveDirection = "Left" /\ head_position.x - 1 < 0
    \/ ActiveDirection = "Right" /\ head_position.x + 1 >= dimensions.x

\* the step moves the head onto a cell of the tail queue
HitsTail ==
    /\ StepRuns
    /\ state = "Running"
    /\ ~panicked'
    /\ head_position' # head_position
    /\ head_position' \in TailCells

----------------------------------------------------------------------------
(* C11 *)

\* C11: a tick whose step would leave the grid sets the status to Lost and
\* leaves the head, the tail queue, the fruit and every tile's occupancy as
\* they were.
C11_BoundaryLoss ==
    [][(StepRuns /\ LeavesGrid) =>
          /\ state' = "Lost"
          /\ UNCHANGED <<head_position, tail_positions, fruit_position,
                         tiles>>]_vars

\* lost at a wall with a tail, the head still facing the wall
C11_Witness ==
    /\ state = "Lost"
    /\ ~panicked
    /\ last_call.op = "update"
    /\ tail_positions # <<>>
    /\ head_position \notin TailCells
    /\ queued_direction = None
    /\ \/ movement_direction = "Up" /\ head_position.y = 0
       \/ movement_direction = "Down" /\ head_position.y + 1 = dimensions.y
       \/ movement_direction = "Left" /\ head_position.x = 0
       \/ movement_direction = "Right" /\ head_position.x + 1 = dimensions.x

----------------------------------------------------------------------------
(* C12 *)

\* C12: after a tick run from a Running state whose new head position is
\* already in the tail queue, the oldest segment included, the status is Lost.
C12_SelfCollisionLost ==
    [][HitsTail => state' = "Lost"]_vars

----------------------------------------------------------------------------
(* C13 *)

\* C13: a tick that detects a self-collision mutates nothing after setting
\* Lost: the oldest tail segment is not popped, no tile becomes unoccupied
\* and the fruit stays where it was.
C13_CollisionStops ==
    [][HitsTail =>
          /\ tail_positions'[Len(tail_positions')] =
                 tail_positions[Len(tail_positions)]
          /\ \A p \in Positions(dimensions) : occupied(p) => occupied(p)'
          /\ fruit_position' = fruit_position]_vars

----------------------------------------------------------------------------
(* The constructor as a process: the fruit loop of new, one draw at a time *)

\* the dimensions new can be called with, grids of fewer than two tiles
\* included
Dimensions ==
    { dims \in [x : 0..MaxWidth, y : 0..MaxHeight] :
        dims.x * dims.y <= MaxTiles }

\* new on entry to the fruit loop: head_initial_position and column are
\* built, no fruit is drawn yet (fruit_position holds no fruit: it is shown
\* at the head's cell until the loop breaks)
new_entry(i, dims) ==
    [ impl |-> i,
      head_position |-> Vector(dims.x \div 2, dims.y \div 2),
      tail_positions |-> <<>>,
      dimensions |-> dims,
      tiles |-> [row \in 0..(dims.y - 1) |->
                   [col \in 0..(dims.x - 1) |-> FALSE]],
      fruit_position |-> Vector(dims.x \div 2, dims.y \div 2),
      movement_direction |-> "Right",
      queued_direction |-> None,
      state |-> "Running",
      ms_since_last_update |-> MILLISECONDS_PER_FRAME,
      panicked |-> FALSE ]

\* one iteration of the loop for the drawn position: continue on the head's
\* cell, abort on an index out of range, else break with the fruit marked
new_draw(self, position) ==
    IF position = self.head_position THEN self
    ELSE IF ~InRange(self.dimensions, position.x, position.y)
    THEN [self EXCEPT !.panicked = TRUE]
    ELSE new(self.impl, self.dimensions, position)

InitNew ==
    \E i \in Impls, dims \in Dimensions :
        LET self == new_entry(i, dims) IN
        /\ impl = self.impl
        /\ head_position = self.head_position
        /\ tail_positions = self.tail_positions
        /\ dimensions = self.dimensions
        /\ tiles = self.tiles
        /\ fruit_position = self.fruit_position
        /\ movement_direction = self.movement_direction
        /\ queued_direction = self.queued_direction
        /\ state = self.state
        /\ ms_since_last_update = self.ms_since_last_update
        /\ panicked = self.panicked
        /\ last_call = [op |-> "new_loop", keycode |-> None, delta |-> 0]
        /\ twin = <<>>

\* gen_range aborts on an empty range; otherwise a position is drawn
NewDraw ==
    /\ last_call.op = "new_loop"
    /\ ~panicked
    /\ IF Positions(dimensions) = {}
       THEN /\ Assign([Self EXCEPT !.panicked = TRUE])
            /\ last_call' = [op |-> "new", keycode |-> None, delta |-> 0]
       ELSE \E position \in Positions(dimensions) :
               /\ Assign(new_draw(Self, position))
               /\ last_call' =
                     IF position = head_position THEN last_call
                     ELSE [op |-> "new", keycode |-> None, delta |-> 0]
    /\ twin' = twin

NextNew ==
    \/ NewDraw
    \/ last_call.op # "new_loop" /\ Next

SpecNew == InitNew /\ [][NextNew]_vars

----------------------------------------------------------------------------
(* C14 *)

\* C14: for every grid of at least two tiles, new completes with status
\* Running, the head at the centre, an empty tail, direction Right, nothing
\* queued, and a fruit inside the grid, off the head, on a tile marked
\* occupied.
C14_ConstructionSucceeds ==
    ( /\ last_call.op = "new"
      /\ dimensions.x >= 1 /\ dimensions.y >= 1
      /\ dimensions.x * dimensions.y >= 2 )
    => /\ ~panicked
       /\ state = "Running"
       /\ head_position = Vector(dimensions.x \div 2, dimensions.y \div 2)
       /\ tail_positions = <<>>
       /\ movement_direction = "Right"
       /\ queued_direction = None
       /\ fruit_position \in Positions(dimensions)
       /\ fruit_position # head_position
       /\ occupied(fruit_position)

----------------------------------------------------------------------------
(* C15 *)

\* C15: for a grid of fewer than two tiles the only way out of new is a
\* construction error returned to the caller: the call does not abort and
\* builds no simulation.
C15_DegenerateGridRejected ==
    dimensions.x * dimensions.y < 2 =>
        /\ ~panicked
        /\ last_call.op \in {"new_loop", "new_error"}

----------------------------------------------------------------------------
(* The first tick: the game up to and including its first update *)

\* the grid main constructs
MainGrid == Vector(10, 10)

InitFirst ==
    \E i \in Impls, dims \in Grids \cup {MainGrid} :
        \E position \in Positions(dims) :
            /\ newReturns(dims, position)
            /\ LET self == new(i, dims, position) IN
               /\ impl = self.impl
               /\ head_position = self.head_position
               /\ tail_positions = self.tail_positions
               /\ dimensions = self.dimensions
               /\ tiles = self.tiles
               /\ fruit_position = self.fruit_position
               /\ movement_direction = self.movement_direction
               /\ queued_direction = self.queued_direction
               /\ state = self.state
               /\ ms_since_last_update = self.ms_since_last_update
               /\ panicked = self.panicked
            /\ last_call = [op |-> "new", keycode |-> None, delta |-> 0]
            /\ twin = <<>>

\* no update has been called yet
BeforeFirstUpdate == last_call.op # "update"

NextFirst == BeforeFirstUpdate /\ Next

SpecFirst == InitFirst /\ [][NextFirst]_vars

----------------------------------------------------------------------------
(* C16 *)

\* C16 (as claimed): on a fresh 10x10 grid with no input, for every initial
\* fruit position, update with 300 ms leaves the head at (6,5), the tail
\* queue equal to [(5,5)] and the status Running.
C16_FirstStepTailKept ==
    [][( /\ dimensions = MainGrid
         /\ last_call.op = "new"
         /\ UpdateCall
         /\ last_call'.delta = MILLISECONDS_PER_FRAME )
       => /\ head_position' = Vector(6, 5)
          /\ tail_positions' = <<Vector(5, 5)>>
          /\ state' = "Running"]_vars

\* C16 (amended): on a fresh 10x10 grid with no input, update with 300 ms
\* leaves the head at (6,5) and the status Running; the tail queue is [(5,5)]
\* when the initial fruit is at (6,5) and empty for every other fruit
\* position.
C16_FirstStep ==
    [][( /\ dimensions = MainGrid
         /\ last_call.op = "new"
         /\ UpdateCall
         /\ last_call'.delta = MILLISECONDS_PER_FRAME )
       => /\ head_position' = Vector(6, 5)
          /\ tail_positions' =
                 IF fruit_position = Vector(6, 5)
                 THEN <<Vector(5, 5)>> ELSE <<>>
          /\ state' = "Running"]_vars

\* the first step on the 10x10 grid, away from the fruit
C16_Witness ==
    /\ dimensions = MainGrid
    /\ last_call = [op |-> "update", keycode |-> None,
                    delta |-> MILLISECONDS_PER_FRAME]
    /\ head_position = Vector(6, 5)
    /\ tail_positions = <<>>
    /\ movement_direction = "Right"
    /\ ms_since_last_update = MILLISECONDS_PER_FRAME
    /\ Running

----------------------------------------------------------------------------
(* C17 *)

\* C17: the first update after construction runs one step whatever its
\* elapsed time, zero included, and leaves the accumulator at the elapsed
\* time.
C17_FirstUpdateSteps ==
    [][(UpdateCall /\ ~panicked) =>
          /\ ms_since_last_update' = last_call'.delta
          /\ \/ Distance(head_position, head_position') = 1
             \/ state' = "Lost" /\ head_position' = head_position]_vars

\* the first update had no elapsed time and moved the head
C17_Witness ==
    /\ last_call = [op |-> "update", keycode |-> None, delta |-> 0]
    /\ ms_since_last_update = 0
    /\ head_position # Vector(dimensions.x \div 2, dimensions.y \div 2)
    /\ Running

----------------------------------------------------------------------------
(* C18 *)

\* the key that produces the next state is a direction that is not the
\* reverse of the active one
Accepted ==
    /\ KeyDownCall
    /\ last_call'.keycode \in Direction
    /\ last_call'.keycode # Opposite(movement_direction)

\* C18: an accepted direction input overwrites the queued direction and
\* never changes the active one; a tick that runs a step makes the last
\* accepted input the active direction and clears the queue; no other call
\* changes either.
C18_QueueLastWriteWins ==
    [][/\ KeyDownCall =>
             /\ movement_direction' = movement_direction
             /\ queued_direction' =
                    IF Accepted THEN last_call'.keycode ELSE queued_direction
       /\ StepRuns =>
             /\ movement_direction' = ActiveDirection
             /\ queued_direction' = None
       /\ (UpdateCall /\ ~StepRuns) =>
             UNCHANGED <<movement_direction, queued_direction>>]_vars

\* two turns have been applied by ticks and the queue is empty again
C18_Witness ==
    /\ Running
    /\ last_call.op = "update"
    /\ movement_direction = "Left"
    /\ queued_direction = None
    /\ tail_positions # <<>>

----------------------------------------------------------------------------
(* C20 *)

\* C20: a queued direction is never the reverse of the active direction; no
\* call reverses the active direction, and the head never moves back onto
\* the cell it left on the previous tick.
C20_NoReversal ==
    [][/\ queued_direction' # None =>
             queued_direction' # Opposite(movement_direction')
       /\ movement_direction' # Opposite(movement_direction)
       /\ (tail_positions # <<>> /\ head_position' # head_position) =>
             head_position' # tail_positions[1]]_vars

\* a reversal was asked for while a turn is queued and the cell just left is
\* behind the head
C20_Witness ==
    /\ Running
    /\ last_call.op = "key_down_event"
    /\ last_call.keycode \in Direction
    /\ last_call.keycode = Opposite(movement_direction)
    /\ queued_direction \in Direction
    /\ queued_direction # movement_direction
    /\ tail_positions # <<>>
    /\ Distance(head_position, tail_positions[1]) = 1

----------------------------------------------------------------------------
(* The two copies side by side: MainState in the fields, GameState in twin, *)
(* constructed alike and given the same keys, frame deltas and random       *)
(* indices                                                                  *)

InitTwin ==
    \E dims \in Grids : \E position \in Positions(dims) :
        /\ newReturns(dims, position)
        /\ LET self == new("main", dims, position) IN
           /\ impl = self.impl
           /\ head_position = self.head_position
           /\ tail_positions = self.tail_positions
           /\ dimensions = self.dimensions
           /\ tiles = self.tiles
           /\ fruit_position = self.fruit_position
           /\ movement_direction = self.movement_direction
           /\ queued_direction = self.queued_direction
           /\ state = self.state
           /\ ms_since_last_update = self.ms_since_last_update
           /\ panicked = self.panicked
        /\ last_call = [op |-> "new", keycode |-> None, delta |-> 0]
        /\ twin = <<new("game", dims, position)>>

KeyDownBoth(keycode) ==
    /\ ~panicked /\ ~twin[1].panicked
    /\ Assign(key_down_event(Self, keycode))
    /\ twin' = <<key_down_event(twin[1], keycode)>>
    /\ last_call' = [op |-> "key_down_event", keycode |-> keycode, delta |-> 0]

UpdateBoth(delta) ==
    /\ ~panicked /\ ~twin[1].panicked
    /\ ms_since_last_update + delta <= MaxMs
    /\ twin[1].ms_since_last_update + delta <= MaxMs
    /\ \E random_index \in 0..(dimensions.x * dimensions.y - 1) :
         LET main_result == update(Self, delta, random_index)
             game_result == update(twin[1], delta, random_index)
         IN /\ main_result.drawn
            /\ game_result.drawn
            /\ Assign(main_result.self)
            /\ twin' = <<game_result.self>>
    /\ last_call' = [op |-> "update", keycode |-> None, delta |-> delta]

NextTwin ==
    \/ \E keycode \in KeyCode : KeyDownBoth(keycode)
    \/ \E delta \in Deltas : UpdateBoth(delta)

SpecTwin == InitTwin /\ [][NextTwin]_vars

----------------------------------------------------------------------------
(* C19 *)

\* the fields the two copies are compared on
Observable(self) ==
    [ head_position |-> self.head_position,
      tail_positions |-> self.tail_positions,
      fruit_position |-> self.fruit_position,
      movement_direction |-> self.movement_direction,
      queued_direction |-> self.queued_direction,
      state |-> self.state,
      ms_since_last_update |-> self.ms_since_last_update ]

\* C19: after every operation MainState and GameState, started alike and
\* given the same inputs, elapsed times and random draws, have equal head
\* position, tail queue, fruit position, directions, status and accumulator.
C19_CopiesAgree ==
    twin # <<>> => Observable(Self) = Observable(twin[1])

----------------------------------------------------------------------------
(* C21 *)

\* C21: every tile access of update indexes inside the tile array, on square
\* and non-square grids alike: no update aborts on an index out of range.
C21_TileIndexInRange ==
    last_call.op = "update" => ~panicked

----------------------------------------------------------------------------
(* The idle game: no key is ever pressed and every frame has positive      *)
(* elapsed time; the event loop keeps calling update while the process     *)
(* lives                                                                   *)

IdleTick == \E delta \in Deltas \ {0} : Update(delta)

NextIdle == IdleTick

SpecIdle == Init /\ [][NextIdle]_vars /\ WF_vars(IdleTick)

----------------------------------------------------------------------------
(* C22 *)

\* C22: with no direction input and fair ticking the status eventually
\* leaves Running.
C22_IdleGameEnds == <>(state # "Running")

====
